---------------------------- MODULE Spec2Model ----------------------------
(***************************************************************************)
(* Model of sapphirejs/consoler (src/lib/consoler.js): the Consoler class  *)
(* that matches a command-line invocation against a route template and     *)
(* binds typed arguments and options.                                      *)
(*                                                                         *)
(* JavaScript strings are sequences of one-character strings.  A           *)
(* JavaScript value is a record [t, s, a]: t is the type tag, s the text   *)
(* of the value (the characters of a string; for a number its ToString,    *)
(* which identifies it: "7", "1.5", "NaN", "Infinity"; "true"/"false" for  *)
(* a boolean) and a the elements of an array.  t = "TypeError" stands for  *)
(* a call that threw a TypeError instead of returning.                     *)
(***************************************************************************)
EXTENDS Integers, Sequences, FiniteSets, TLC

(* ------------------------------ bounds -------------------------------- *)

\* longest enumerated input string of the Value Caster
MaxStrLen == 3
\* number of match()/parse() calls made on one engine instance
MaxCalls == 2
\* number of writes the caller makes to a record parse() returned
MaxWrites == 1

(* ------------------------- JavaScript strings ------------------------- *)

Digits == {"0", "1", "2", "3", "4", "5", "6", "7", "8", "9"}

S_true == <<"t", "r", "u", "e">>
S_false == <<"f", "a", "l", "s", "e">>
S_undefined == <<"u", "n", "d", "e", "f", "i", "n", "e", "d">>
S_null == <<"n", "u", "l", "l">>
S_NaN == <<"N", "a", "N">>
S_Infinity == <<"I", "n", "f", "i", "n", "i", "t", "y">>
S_string == <<"s", "t", "r", "i", "n", "g">>
S_number == <<"n", "u", "m", "b", "e", "r">>
S_array == <<"a", "r", "r", "a", "y">>
S_boolean == <<"b", "o", "o", "l", "e", "a", "n">>
S_object == <<"o", "b", "j", "e", "c", "t">>
S_type == <<"t", "y", "p", "e">>
S_default == <<"d", "e", "f", "a", "u", "l", "t">>
S_alias == <<"a", "l", "i", "a", "s">>

\* s.slice(from) with 0-based from
Drop(s, k) == IF k >= Len(s) THEN << >> ELSE SubSeq(s, k + 1, Len(s))

Take(s, k) == IF k <= 0 THEN << >> ELSE SubSeq(s, 1, IF k > Len(s) THEN Len(s) ELSE k)

StartsWith(s, p) == Len(s) >= Len(p) /\ Take(s, Len(p)) = p

\* 1-based index of the first occurrence of character c in s, 0 when absent
IndexOf(s, c) ==
  IF \E i \in 1..Len(s) : s[i] = c
    THEN CHOOSE i \in 1..Len(s) : s[i] = c /\ \A j \in 1..(i - 1) : s[j] # c
    ELSE 0

LastIndexOf(s, c) ==
  IF \E i \in 1..Len(s) : s[i] = c
    THEN CHOOSE i \in 1..Len(s) : s[i] = c /\ \A j \in (i + 1)..Len(s) : s[j] # c
    ELSE 0

RECURSIVE TrimLeft(_)
TrimLeft(s) == IF s # << >> /\ Head(s) = " " THEN TrimLeft(Tail(s)) ELSE s

RECURSIVE TrimRight(_)
TrimRight(s) ==
  IF s # << >> /\ s[Len(s)] = " " THEN TrimRight(SubSeq(s, 1, Len(s) - 1)) ELSE s

\* String.prototype.trim
Trim(s) == TrimRight(TrimLeft(s))

\* String.prototype.split(c): the pieces between the occurrences of c
RECURSIVE Split(_, _)
Split(s, c) ==
  LET i == IndexOf(s, c)
  IN IF i = 0 THEN <<s>> ELSE <<Take(s, i - 1)>> \o Split(Drop(s, i), c)

\* Array.prototype.join(c) on an array of strings
RECURSIVE Join(_, _)
Join(ss, c) ==
  IF ss = << >> THEN << >>
  ELSE IF Len(ss) = 1 THEN ss[1]
  ELSE ss[1] \o <<c>> \o Join(Tail(ss), c)

(* ------------------------- JavaScript numbers ------------------------- *)

\* length of the longest prefix of s made of decimal digits
RECURSIVE DigitRun(_)
DigitRun(s) == IF s # << >> /\ Head(s) \in Digits THEN 1 + DigitRun(Tail(s)) ELSE 0

RECURSIVE StripLeadingZeros(_)
StripLeadingZeros(s) ==
  IF Len(s) > 1 /\ Head(s) = "0" THEN StripLeadingZeros(Tail(s)) ELSE s

RECURSIVE StripTrailingZeros(_)
StripTrailingZeros(s) ==
  IF s # << >> /\ s[Len(s)] = "0" THEN StripTrailingZeros(SubSeq(s, 1, Len(s) - 1)) ELSE s

\* The parts of the longest prefix of s that is a StrDecimalLiteral without
\* exponent: [sign] digits [. digits] or [sign] . digits; len = 0 when s has
\* no such prefix.
DecimalPrefix(s) ==
  LET sign == IF s # << >> /\ Head(s) \in {"+", "-"} THEN 1 ELSE 0
      r1 == Drop(s, sign)
      ni == DigitRun(r1)
      r2 == Drop(r1, ni)
      dot == r2 # << >> /\ Head(r2) = "."
      nf == IF dot THEN DigitRun(Tail(r2)) ELSE 0
      ok == ni + nf > 0
      useDot == dot /\ (ni > 0 \/ nf > 0)
  IN [len |-> IF ok THEN sign + ni + (IF useDot THEN 1 + nf ELSE 0) ELSE 0,
      neg |-> sign = 1 /\ Head(s) = "-",
      int |-> Take(r1, ni),
      frac |-> IF dot THEN Take(Tail(r2), nf) ELSE << >>]

\* ToString of the number a decimal literal denotes: "007" -> "7",
\* "1.50" -> "1.5", ".5" -> "0.5", "-0" -> "0"
Canonical(p) ==
  LET int == IF p.int = << >> THEN <<"0">> ELSE StripLeadingZeros(p.int)
      frac == StripTrailingZeros(p.frac)
      mag == IF frac = << >> THEN int ELSE int \o <<".">> \o frac
  IN IF p.neg /\ mag # <<"0">> THEN <<"-">> \o mag ELSE mag

Unsigned(s) == IF s # << >> /\ Head(s) \in {"+", "-"} THEN Tail(s) ELSE s

\* the text (ToString) of parseFloat(str) for a string str
ParseFloatText(str) ==
  LET s == TrimLeft(str)
      p == DecimalPrefix(s)
  IN IF StartsWith(Unsigned(s), S_Infinity) THEN S_Infinity
     ELSE IF p.len > 0 THEN Canonical(p)
     ELSE S_NaN

\* the text (ToString) of Number(str) for a string str
NumberText(str) ==
  LET s == Trim(str)
      p == DecimalPrefix(s)
  IN IF s = << >> THEN <<"0">>
     ELSE IF Unsigned(s) = S_Infinity THEN S_Infinity
     ELSE IF p.len > 0 /\ p.len = Len(s) THEN Canonical(p)
     ELSE S_NaN

(* -------------------------- JavaScript values ------------------------- *)

JUndef == [t |-> "undefined", s |-> S_undefined, a |-> << >>]
JNull == [t |-> "null", s |-> S_null, a |-> << >>]
JTrue == [t |-> "boolean", s |-> S_true, a |-> << >>]
JFalse == [t |-> "boolean", s |-> S_false, a |-> << >>]
JStr(s) == [t |-> "string", s |-> s, a |-> << >>]
JNum(s) == [t |-> "number", s |-> s, a |-> << >>]
JArr(a) == [t |-> "array", s |-> << >>, a |-> a]
JTypeError == [t |-> "TypeError", s |-> << >>, a |-> << >>]

JNaN == JNum(S_NaN)

\* ToString(value); an array joins the texts of its elements with commas,
\* an undefined or null element giving the empty text
RECURSIVE ToStr(_)
ToStr(v) ==
  IF v.t = "array"
    THEN Join([i \in 1..Len(v.a) |->
                 IF v.a[i].t \in {"undefined", "null"} THEN << >> ELSE ToStr(v.a[i])], ",")
    ELSE v.s

\* ToBoolean(value)
Truthy(v) ==
  CASE v.t \in {"undefined", "null"} -> FALSE
    [] v.t = "boolean" -> v.s = S_true
    [] v.t = "number" -> v.s \notin {<<"0">>, S_NaN}
    [] v.t = "string" -> v.s # << >>
    [] OTHER -> TRUE

\* a || b
Or(a, b) == IF Truthy(a) THEN a ELSE b

\* typeof value, as a string
TypeOf(v) ==
  CASE v.t = "undefined" -> S_undefined
    [] v.t = "boolean" -> S_boolean
    [] v.t = "number" -> S_number
    [] v.t = "string" -> S_string
    [] OTHER -> S_object

\* parseFloat(value): the argument is converted to a string first
ParseFloat(v) == JNum(ParseFloatText(ToStr(v)))

\* Number(value)
ToNumber(v) ==
  CASE v.t = "undefined" -> JNaN
    [] v.t = "null" -> JNum(<<"0">>)
    [] v.t = "boolean" -> JNum(IF v.s = S_true THEN <<"1">> ELSE <<"0">>)
    [] v.t = "number" -> v
    [] OTHER -> JNum(NumberText(ToStr(v)))

IsNaN(v) == v.t = "number" /\ v.s = S_NaN

IsInfinite(v) == v.t = "number" /\ Unsigned(v.s) = S_Infinity

(* ---------------------------- Value Caster ---------------------------- *)

\* Consoler._isNumber
IsNumber(value) ==
  LET number == ParseFloat(value)
  IN ~IsNaN(number) /\ ~IsInfinite(number)

\* Consoler._cast: /,/.test(value) converts value to a string; only a string
\* has a split method, so any other value whose text holds a comma throws.
RECURSIVE Cast(_)
Cast(value) ==
  IF "," \in {ToStr(value)[i] : i \in 1..Len(ToStr(value))}
    THEN IF value.t = "string"
           THEN LET items == Split(value.s, ",")
                IN JArr([i \in 1..Len(items) |-> Cast(JStr(items[i]))])
           ELSE JTypeError
    ELSE IF IsNumber(value) THEN ToNumber(value)
    ELSE IF value = JTrue \/ value = JStr(S_true) THEN JTrue
    ELSE IF value = JFalse \/ value = JStr(S_false) THEN JFalse
    ELSE IF value.t = "string" THEN JStr(Trim(value.s))
    ELSE value


(* ------------------------------ objects ------------------------------- *)

\* {} and obj[key] = value on a plain object (keys are strings)
EmptyMap == << >>

Put(m, k, v) == [x \in (DOMAIN m) \cup {k} |-> IF x = k THEN v ELSE m[x]]

\* obj[key]: undefined when the object has no such property
Lookup(m, k) == IF k \in DOMAIN m THEN m[k] ELSE JUndef

\* the capture group of /\<(.+)\>/ (or /\[(.+)\]/) in s: the leftmost opening
\* bracket and the last closing one with at least one character between
BracketMatch(s, open, close) ==
  LET i == IndexOf(s, open)
      j == LastIndexOf(s, close)
  IN [found |-> i > 0 /\ j >= i + 2,
      group |-> IF i > 0 /\ j >= i + 2 THEN SubSeq(s, i + 1, j - 1) ELSE << >>]

\* /(.+):(.+)/.test(param): a colon with a character before and after it
KeyValueForm(param) == \E i \in 2..(Len(param) - 1) : param[i] = ":"

(* -------------------------- Argument Binder --------------------------- *)

\* ArgumentStep with the check of a required argument left out: a missing
\* required argument is skipped like a missing optional one
ArgumentStepNoCheck(acc, argument, cliArg) ==
  LET required == BracketMatch(argument, "<", ">")
      optional == BracketMatch(argument, "[", "]")
      name == IF required.found THEN required.group
              ELSE IF optional.found THEN optional.group ELSE argument
  IN IF acc.err # "none" THEN acc
     ELSE IF Truthy(cliArg)
       THEN [err |-> "none", map |-> Put(acc.map, name, cliArg)]
       ELSE acc

\* one iteration of the forEach of Consoler._parseArguments
ArgumentStep(acc, argument, cliArg) ==
  LET required == BracketMatch(argument, "<", ">")
      optional == BracketMatch(argument, "[", "]")
      name == IF optional.found THEN optional.group ELSE argument
  IN IF acc.err # "none" THEN acc
     ELSE IF required.found
       THEN IF ~Truthy(cliArg)
              THEN [err |-> "MissingArgument", map |-> acc.map]
              ELSE [err |-> "none", map |-> Put(acc.map, required.group, cliArg)]
       ELSE IF Truthy(cliArg)
              THEN [err |-> "none", map |-> Put(acc.map, name, cliArg)]
              ELSE acc

RECURSIVE ArgumentLoop(_, _, _, _)
ArgumentLoop(acc, routeArguments, cliArguments, index) ==
  IF index > Len(routeArguments) THEN acc
  ELSE ArgumentLoop(
         ArgumentStep(acc, routeArguments[index].s,
                      IF index <= Len(cliArguments) THEN cliArguments[index] ELSE JUndef),
         routeArguments, cliArguments, index + 1)

\* Consoler._parseArguments: the bound arguments, or the error thrown
ParseArguments(routeArguments, cliArguments) ==
  ArgumentLoop([err |-> "none", map |-> EmptyMap], routeArguments, cliArguments, 1)

(* ------------------------ Placeholder Grammar ------------------------- *)

\* one iteration of the params.forEach of Consoler._parsePlaceholders
PlaceholderStep(result, param) ==
  LET parts == Split(param, ":")
      key == parts[1]
      value == parts[2]
  IN IF result.err # "none" THEN result
     ELSE IF KeyValueForm(param)
       THEN IF key = S_type THEN [result EXCEPT !.type = JStr(value)]
            ELSE IF key = S_default THEN [result EXCEPT !._default = JStr(value)]
            ELSE IF key = S_alias THEN [result EXCEPT !.alias = JStr(value)]
            ELSE [result EXCEPT !.err = "InvalidOption"]
       ELSE [result EXCEPT !.name = JStr(param)]

RECURSIVE PlaceholderLoop(_, _)
PlaceholderLoop(result, params) ==
  IF params = << >> THEN result
  ELSE PlaceholderLoop(PlaceholderStep(result, Head(params)), Tail(params))

\* Consoler._parsePlaceholders: template is the route's value for the option,
\* a string or (for a bare flag) a boolean
ParsePlaceholders(template) ==
  LET text == ToStr(template)
      result == [err |-> "none", name |-> JNull, alias |-> JNull,
                 type |-> JNull, _default |-> JNull]
  IN IF BracketMatch(text, "<", ">").found
       THEN IF template.t = "string"
              THEN PlaceholderLoop(result,
                     Split(SubSeq(text, 2, Len(text) - 1), "|"))
              ELSE [result EXCEPT !.err = "TypeError"]
       ELSE [result EXCEPT !.type = JStr(TypeOf(template))]

(* --------------------------- Option Binder ---------------------------- *)

\* this._types
Types == {S_string, S_number, S_array, S_boolean}

\* Consoler._typeSupported
TypeSupported(type) == type.s \in Types

\* Consoler._checkType
CheckType(value, type) ==
  IF value.t = "array" THEN type.s = S_array ELSE TypeOf(value) = type.s

\* cliOptions[option] || cliOptions[alias]: a null alias is the key "null"
RawOption(cliOptions, option, alias) ==
  Or(Lookup(cliOptions, option), Lookup(cliOptions, ToStr(alias)))

\* name || option: the key of the result the option is bound under
OutputKey(name, option) == IF Truthy(name) THEN name.s ELSE option

\* one iteration of the for loop of Consoler._parseOptions
OptionStep(acc, option, routeOptValue, cliOptions) ==
  LET ph == ParsePlaceholders(routeOptValue)
      cliOptValue == Cast(RawOption(cliOptions, option, ph.alias))
  IN IF acc.err # "none" THEN acc
     ELSE IF ph.err # "none" THEN [acc EXCEPT !.err = ph.err]
     ELSE IF cliOptValue.t = "TypeError" THEN [acc EXCEPT !.err = "TypeError"]
     ELSE IF ~Truthy(cliOptValue)
       THEN IF Truthy(ph._default)
              THEN [acc EXCEPT !.map = Put(@, OutputKey(ph.name, option), Cast(ph._default))]
              ELSE acc
     ELSE IF Truthy(ph.type) /\ ~TypeSupported(ph.type)
       THEN [acc EXCEPT !.err = "InvalidOption"]
     ELSE IF Truthy(ph.type) /\ ~CheckType(cliOptValue, ph.type)
       THEN [acc EXCEPT !.err = "InvalidOption"]
     ELSE [acc EXCEPT !.map = Put(@, OutputKey(ph.name, option), cliOptValue)]

RECURSIVE OptionLoop(_, _, _)
OptionLoop(acc, routeOptions, cliOptions) ==
  IF routeOptions = << >> THEN acc
  ELSE OptionLoop(
         OptionStep(acc, Head(routeOptions).key, Head(routeOptions).value, cliOptions),
         Tail(routeOptions), cliOptions)

\* Consoler._parseOptions: routeOptions lists the route's options in the
\* order of Object.keys; the bound options, or the error thrown
ParseOptions(routeOptions, cliOptions) ==
  OptionLoop([err |-> "none", map |-> EmptyMap], routeOptions, cliOptions)


(* ------------------------------- inputs ------------------------------- *)

S_cmd == <<"c", "m", "d">>
S_other == <<"o", "t", "h", "e", "r">>
S_opt == <<"o", "p", "t">>
S_name == <<"n", "a", "m", "e">>

\* option patterns of a route template: the value the flag decomposer gives
\* the template's flag (true for a bare --opt, "" for --opt=)
P_default5 == <<"<", "d", "e", "f", "a", "u", "l", "t", ":", "5", ">">>
P_alias_o == <<"<", "a", "l", "i", "a", "s", ":", "o", ">">>
P_type(type) == <<"<">> \o S_type \o <<":">> \o type \o <<">">>
P_n_number_default3 ==
  <<"<", "n", "|">> \o S_type \o <<":">> \o S_number \o <<"|">> \o S_default \o <<":", "3", ">">>
P_n_alias_o_default5 ==
  <<"<", "n", "|">> \o S_alias \o <<":", "o", "|">> \o S_default \o <<":", "5", ">">>
P_mykey == <<"<", "m", "y", "k", "e", "y", ":">> \o S_string \o <<">">>
P_n_mykey == <<"<", "n", "|", "k", ":", "v", "|">> \o S_default \o <<":", "5", ">">>
P_Type == <<"<", "T", "y", "p", "e", ":">> \o S_number \o <<">">>

OptionPatterns ==
  { JTrue, JStr(<< >>), JStr(P_default5), JStr(P_alias_o),
    JStr(P_type(S_array)), JStr(P_type(S_number)), JStr(P_type(S_string)),
    JStr(P_type(S_boolean)), JStr(P_type(S_object)),
    JStr(P_n_number_default3), JStr(P_n_alias_o_default5),
    JStr(P_mykey), JStr(P_n_mykey), JStr(P_Type) }

\* a route declares --opt alone, or --opt followed by a second option --o
RouteOptions ==
  { << >> }
  \cup { <<[key |-> S_opt, value |-> p]>> : p \in OptionPatterns }
  \cup { <<[key |-> S_opt, value |-> p], [key |-> <<"o">>, value |-> q]>> :
           p \in {JStr(P_type(S_number)), JStr(P_default5)},
           q \in {JStr(P_mykey), JStr(P_type(S_string))} }

\* argument patterns of a route template
A_req(name) == JStr(<<"<", name, ">">>)
A_opt(name) == JStr(<<"[", name, "]">>)

RouteArguments ==
  { << >>, <<A_req("a")>>, <<A_opt("a")>>, <<A_req("a"), A_opt("b")>>,
    <<A_opt("a"), A_req("b")>>, <<A_opt("a"), A_opt("b")>>, <<JStr(<<"a">>)>> }

\* The routes: every argument list without options, and every option list
\* behind the arguments <a> [b].
Routes ==
  { [command |-> JStr(S_cmd), arguments |-> ra, options |-> << >>] : ra \in RouteArguments }
  \cup { [command |-> JStr(S_cmd), arguments |-> <<A_req("a"), A_opt("b")>>, options |-> ro] :
           ro \in RouteOptions }

\* positional values of an invocation: the flag decomposer yields strings,
\* and numbers for numeric tokens
Positionals == { JStr(<<"x">>), JStr(<< >>), JNum(<<"0">>) }

CliArguments ==
  { << >> } \cup { <<v>> : v \in Positionals }
  \cup { <<v, w>> : v, w \in Positionals }
  \cup { <<JStr(<<"x">>), JStr(<<"y">>), JStr(<<"z">>)>> }

\* raw flag values of an invocation: booleans, numbers for numeric tokens,
\* other strings as they are, an array for a repeated flag
RawValues ==
  { JTrue, JFalse, JNum(<<"7">>), JNum(<<"0">>), JStr(S_name), JStr(<< >>),
    JStr(<<"1", "2", "a">>), JStr(<<"1", ",", "2">>), JStr(S_false),
    JArr(<<JStr(<<"a">>), JStr(<<"b">>)>>) }

CliOptions ==
  { EmptyMap }
  \cup { Put(EmptyMap, S_opt, v) : v \in RawValues }
  \cup { Put(EmptyMap, <<"o">>, JStr(S_name)) }
  \cup { Put(Put(EmptyMap, S_opt, v), <<"o">>, JStr(S_name)) :
           v \in {JTrue, JFalse, JNum(<<"7">>), JNum(<<"0">>)} }
  \cup { Put(EmptyMap, <<"n">>, JStr(S_name)), Put(EmptyMap, S_null, JStr(S_name)) }

CliCommands == { JStr(S_cmd), JStr(S_other), JUndef }

Clis ==
  [command : CliCommands, arguments : CliArguments, options : CliOptions]

(* ------------------------------- state -------------------------------- *)

VARIABLES
  route,        \* this._route
  cli,          \* this._cli
  recs,         \* the heap of result records: recs[r] = [command, argument, option],
                \* argument and option being references into maps
  maps,         \* the heap of plain objects (argument and option mappings)
  thisCommand,  \* this._command: a reference into recs
  ret,          \* the outcome of the last call on the engine (or the caller's write)
  returned,     \* the references parse() returned, oldest first
  calls,        \* number of match()/parse() calls made
  writes,       \* number of writes the caller made to a returned record
  castIn,       \* Value Caster alone: the value handed to _cast
  castOut       \* Value Caster alone: what _cast gave for castIn

vars == <<route, cli, recs, maps, thisCommand, ret, returned, calls, writes, castIn, castOut>>

NoRet == [op |-> "none", kind |-> "none", bool |-> FALSE, ref |-> 0]

NotCast == [t |-> "none", s |-> << >>, a |-> << >>]

\* Consoler.constructor: the parsed route and invocation, and the one result
\* record this._command = {command: null, argument: {}, option: {}}
Constructor(r, c) ==
  /\ route = r
  /\ cli = c
  /\ maps = <<EmptyMap, EmptyMap>>
  /\ recs = <<[command |-> JNull, argument |-> 1, option |-> 2]>>
  /\ thisCommand = 1
  /\ ret = NoRet
  /\ returned = << >>
  /\ calls = 0
  /\ writes = 0

Init ==
  /\ \E r \in Routes, c \in Clis : Constructor(r, c)
  /\ castIn = JUndef
  /\ castOut = NotCast

\* MatchResult with an invocation that has no command name taken to match
MatchResultLoose(r, c) == r.command = c.command \/ ~Truthy(c.command)

\* Consoler.match: strict equality of the two command names
MatchResult(r, c) == r.command = c.command

Match ==
  /\ calls < MaxCalls
  /\ calls' = calls + 1
  /\ ret' = [op |-> "match", kind |-> "value", bool |-> MatchResult(route, cli), ref |-> 0]
  /\ UNCHANGED <<route, cli, recs, maps, thisCommand, returned, writes, castIn, castOut>>

\* What parse() returns or throws: the reference it returns is this._command
ParseOutcome(kind) ==
  [op |-> "parse", kind |-> kind, bool |-> FALSE,
   ref |-> IF kind = "value" THEN thisCommand ELSE 0]

\* Consoler.parse, with the assignments it made before an error was thrown
Parse ==
  LET args == ParseArguments(route.arguments, cli.arguments)
      opts == ParseOptions(route.options, cli.options)
      n == Len(maps)
      withCommand == [recs EXCEPT ![thisCommand].command = cli.command]
      withArgument == [withCommand EXCEPT ![thisCommand].argument = n + 1]
      withOption == [withArgument EXCEPT ![thisCommand].option = n + 2]
  IN /\ calls < MaxCalls
     /\ calls' = calls + 1
     /\ IF ~MatchResult(route, cli)
          THEN /\ ret' = ParseOutcome("value")
               /\ returned' = Append(returned, thisCommand)
               /\ UNCHANGED <<recs, maps>>
        ELSE IF args.err # "none"
          THEN /\ ret' = ParseOutcome(args.err)
               /\ recs' = withCommand
               /\ UNCHANGED <<maps, returned>>
        ELSE IF opts.err # "none"
          THEN /\ ret' = ParseOutcome(opts.err)
               /\ recs' = withArgument
               /\ maps' = Append(maps, args.map)
               /\ UNCHANGED returned
        ELSE /\ ret' = ParseOutcome("value")
             /\ recs' = withOption
             /\ maps' = maps \o <<args.map, opts.map>>
             /\ returned' = Append(returned, thisCommand)
     /\ UNCHANGED <<route, cli, thisCommand, writes, castIn, castOut>>

Next == Match \/ Parse

Spec == Init /\ [][Next]_vars


(* ----------------------- the caller of parse() ------------------------ *)

S_injected == <<"i", "n", "j", "e", "c", "t", "e", "d">>

\* The caller holds the record the latest returning parse() gave it (parse
\* hands out the reference itself, not a copy) and writes to it:
\* command.command = ..., command.argument.injected = true or
\* command.option.injected = true.
CallerWrite ==
  /\ writes < MaxWrites
  /\ returned # << >>
  /\ writes' = writes + 1
  /\ LET held == returned[Len(returned)]
     IN /\ ret' = [op |-> "write", kind |-> "none", bool |-> FALSE, ref |-> held]
        /\ \/ /\ recs' = [recs EXCEPT ![held].command = JStr(S_injected)]
              /\ UNCHANGED maps
           \/ /\ maps' = [maps EXCEPT ![recs[held].argument] = Put(@, S_injected, JTrue)]
              /\ UNCHANGED recs
           \/ /\ maps' = [maps EXCEPT ![recs[held].option] = Put(@, S_injected, JTrue)]
              /\ UNCHANGED recs
  /\ UNCHANGED <<route, cli, thisCommand, returned, calls, castIn, castOut>>

NextCaller == Match \/ Parse \/ CallerWrite

\* the engine used by a caller that writes to the records it is given
SpecCaller == Init /\ [][NextCaller]_vars

(* ---------------------- the Value Caster alone ------------------------ *)

CastAlphabet == {"1", "0", "a", ",", " ", ".", "-"}

RECURSIVE StringsUpTo(_)
StringsUpTo(n) ==
  IF n = 0 THEN { << >> }
  ELSE LET shorter == StringsUpTo(n - 1)
       IN shorter \cup { Append(s, c) : s \in shorter, c \in CastAlphabet }

\* the values _cast is applied to: every short string over CastAlphabet, the
\* words it treats specially, and the non-string values a flag can carry
CastInputs ==
  { JStr(s) : s \in StringsUpTo(MaxStrLen) }
  \cup { JStr(S_true), JStr(S_false), JStr(S_Infinity), JStr(S_NaN), JStr(S_name),
         JStr(<<"1", "2", "a", "b", "c">>), JStr(<<"1", ",", "2", ",", "3">>) }
  \cup { JUndef, JTrue, JFalse, JNum(<<"7">>), JNum(<<"0">>) }

\* castOut before _cast has run on an input given from outside, and before it
\* has run on a value that is itself a result of _cast
Recast == [t |-> "recast", s |-> << >>, a |-> << >>]

InitCast ==
  /\ Constructor([command |-> JStr(S_cmd), arguments |-> << >>, options |-> << >>],
                 [command |-> JStr(S_cmd), arguments |-> << >>, options |-> EmptyMap])
  /\ castIn \in CastInputs
  /\ castOut = NotCast

\* this._cast(castIn)
CastCall ==
  /\ castOut \in {NotCast, Recast}
  /\ castOut' = Cast(castIn)
  /\ UNCHANGED <<castIn, route, cli, recs, maps, thisCommand, ret, returned, calls, writes>>

\* the result of _cast is handed to _cast again
CastAgain ==
  /\ castOut \notin {NotCast, Recast, JTypeError}
  /\ castOut # castIn
  /\ castIn' = castOut
  /\ castOut' = Recast
  /\ UNCHANGED <<route, cli, recs, maps, thisCommand, ret, returned, calls, writes>>

NextCast == CastCall \/ CastAgain

SpecCast == InitCast /\ [][NextCast]_vars


(* ------------------------------ claims -------------------------------- *)

\* the record a parse() call returned, with its two mappings read out
Result == [command |-> recs[ret.ref].command,
           argument |-> maps[recs[ret.ref].argument],
           option |-> maps[recs[ret.ref].option]]

ParseReturned == ret.op = "parse" /\ ret.kind = "value"

NamesMatch == route.command = cli.command

\* an argument pattern written <name> or [name]
IsRequired(p) == Len(p.s) >= 3 /\ p.s[1] = "<" /\ p.s[Len(p.s)] = ">"

IsOptional(p) == Len(p.s) >= 3 /\ p.s[1] = "[" /\ p.s[Len(p.s)] = "]"

PatternName(p) == SubSeq(p.s, 2, Len(p.s) - 1)

\* the tokens of a bracketed option pattern <t1|t2|...>
PatternTokens(template) ==
  IF template.t = "string" /\ IsRequired(template)
    THEN Split(PatternName(template), "|") ELSE << >>

\* a key:value token whose key is none of type, default, alias
UnknownKeyToken(token) ==
  /\ \E i \in 2..(Len(token) - 1) : token[i] = ":"
  /\ Take(token, IndexOf(token, ":") - 1) \notin {S_type, S_default, S_alias}

HasUnknownKey(template) ==
  \E i \in 1..Len(PatternTokens(template)) : UnknownKeyToken(PatternTokens(template)[i])

\* C1: when the command names of template and invocation differ, match()
\* returns false and parse() returns, without raising, the empty Command:
\* command absent, argument {} and option {}.
C1_MismatchGivesEmptyCommand ==
  ~NamesMatch =>
    /\ ret.op = "match" => ret.bool = FALSE
    /\ ret.op = "parse" =>
         /\ ret.kind = "value"
         /\ Result = [command |-> JNull, argument |-> EmptyMap, option |-> EmptyMap]

\* C1 happens: parse() ran on a mismatching invocation that lacks the
\* template's required argument and whose template has an invalid option
C1_Witness ==
  /\ ret.op = "parse"
  /\ cli.command = JStr(S_other)
  /\ cli.arguments = << >>
  /\ \E i \in 1..Len(route.arguments) : IsRequired(route.arguments[i])
  /\ \E i \in 1..Len(route.options) : HasUnknownKey(route.options[i].value)

\* C2: when the names match and a required pattern <name> stands at a
\* position for which the invocation has no positional value, parse() raises
\* MissingArgument, whatever the options and flags are.
C2_MissingRequiredRaises ==
  ( /\ ret.op = "parse"
    /\ NamesMatch
    /\ \E i \in 1..Len(route.arguments) :
         IsRequired(route.arguments[i]) /\ i > Len(cli.arguments) )
  => ret.kind = "MissingArgument"

\* C2 happens: MissingArgument was raised although the template also holds
\* an option with an unknown placeholder key and the invocation gives a flag
C2_Witness ==
  /\ ret.op = "parse"
  /\ ret.kind = "MissingArgument"
  /\ Len(cli.arguments) = 0
  /\ S_opt \in DOMAIN cli.options
  /\ \E i \in 1..Len(route.options) : HasUnknownKey(route.options[i].value)

Min(a, b) == IF a < b THEN a ELSE b

\* the mapping { name(p_i) -> v_i : i < min(n, m) } of claim C3
PositionalBinding ==
  LET k == Min(Len(route.arguments), Len(cli.arguments))
      names == { PatternName(route.arguments[i]) : i \in 1..k }
  IN [nm \in names |->
        cli.arguments[CHOOSE i \in 1..k : PatternName(route.arguments[i]) = nm]]

\* C3: a parse() that returns on a matching invocation binds exactly the
\* i-th pattern's name to the i-th positional value for every position that
\* both the template and the invocation have.
C3_ArgumentsBoundByPosition ==
  ( /\ ParseReturned
    /\ NamesMatch
    /\ \A i \in 1..Len(route.arguments) :
         IsRequired(route.arguments[i]) \/ IsOptional(route.arguments[i]) )
  => Result.argument = PositionalBinding

\* what the placeholder grammar gives for the i-th option of the route
OptionSpecOf(i) == ParsePlaceholders(route.options[i].value)

FlagKey(i) == route.options[i].key

AliasSupplied(i) ==
  OptionSpecOf(i).alias # JNull /\ OptionSpecOf(i).alias.s \in DOMAIN cli.options

\* the invocation gives a value for the i-th option
Supplied(i) == FlagKey(i) \in DOMAIN cli.options \/ AliasSupplied(i)

\* the raw value claim C7 describes: the flag key's when present, else the alias'
RawOf(i) ==
  IF FlagKey(i) \in DOMAIN cli.options THEN cli.options[FlagKey(i)]
  ELSE cli.options[OptionSpecOf(i).alias.s]

BoundKey(i) == OutputKey(OptionSpecOf(i).name, FlagKey(i))

\* C4: for an option declared with a default, a returning parse() binds the
\* cast default when the invocation has neither the flag key nor the alias,
\* and never binds the default in place of a value given under the flag key
\* (false and 0 count as given).
C4_DefaultOnlyWhenAbsent ==
  (ParseReturned /\ NamesMatch) =>
    \A i \in 1..Len(route.options) :
      (OptionSpecOf(i).err = "none" /\ OptionSpecOf(i)._default # JNull) =>
        /\ ~Supplied(i) =>
             /\ BoundKey(i) \in DOMAIN Result.option
             /\ Result.option[BoundKey(i)] = Cast(OptionSpecOf(i)._default)
        /\ FlagKey(i) \in DOMAIN cli.options =>
             ~ /\ BoundKey(i) \in DOMAIN Result.option
               /\ Result.option[BoundKey(i)] = Cast(OptionSpecOf(i)._default)
               /\ Cast(cli.options[FlagKey(i)]) # Cast(OptionSpecOf(i)._default)

\* the effective type of the i-th option is supported and is the kind of
\* the cast of the value the invocation supplies
TypeAgrees(i) ==
  /\ OptionSpecOf(i).type.s \in {S_string, S_number, S_array, S_boolean}
  /\ LET v == Cast(RawOf(i))
     IN IF v.t = "array" THEN OptionSpecOf(i).type.s = S_array
        ELSE v.t \in {"string", "number", "boolean"} /\ TypeOf(v) = OptionSpecOf(i).type.s

\* C5: on a matching invocation whose arguments bind, when a value is
\* supplied for an option that has an effective type, parse() returns only
\* if the type is supported and is the kind of the cast value, and raises
\* InvalidOption otherwise.
C5_TypeCheckedWhenSupplied ==
  (ret.op = "parse" /\ NamesMatch /\ ret.kind # "MissingArgument") =>
    /\ ret.kind = "value" =>
         \A i \in 1..Len(route.options) :
           (OptionSpecOf(i).err = "none" /\ Supplied(i) /\ OptionSpecOf(i).type # JNull)
             => TypeAgrees(i)
    /\ ( \E i \in 1..Len(route.options) :
           /\ \A j \in 1..i : OptionSpecOf(j).err = "none"
           /\ Supplied(i) /\ OptionSpecOf(i).type # JNull /\ ~TypeAgrees(i) )
       => ret.kind = "InvalidOption"

\* C6: on a matching invocation whose arguments bind, a template option
\* with a key:value token of unknown key makes parse() raise InvalidOption,
\* whether or not the invocation supplies the option.
C6_UnknownKeyRaises ==
  ( /\ ret.op = "parse"
    /\ NamesMatch
    /\ ret.kind # "MissingArgument"
    /\ \E i \in 1..Len(route.options) : HasUnknownKey(route.options[i].value) )
  => ret.kind = "InvalidOption"

\* C7: the value bound for an option is the cast of the invocation's value
\* under the raw flag key whenever that key is present, of the value under
\* the declared alias only when the flag key is absent, and never of a value
\* under the placeholder's name; it is bound under the name when one is
\* declared and under the flag key otherwise.
C7_FlagKeyBeforeAlias ==
  (ParseReturned /\ NamesMatch) =>
    \A i \in 1..Len(route.options) :
      LET spec == OptionSpecOf(i)
          key == IF spec.name # JNull THEN spec.name.s ELSE FlagKey(i)
      IN (spec.err = "none" /\ spec._default = JNull) =>
           /\ Supplied(i) => (key \in DOMAIN Result.option => Result.option[key] = Cast(RawOf(i)))
           /\ ~Supplied(i) => key \notin DOMAIN Result.option

\* C8: every parse() call returns a record of its own, and what the caller
\* wrote to a record it was given is not in the record a later call returns.
C8_FreshRecordPerCall ==
  /\ \A i, j \in 1..Len(returned) : i # j => returned[i] # returned[j]
  /\ ParseReturned =>
       /\ Result.command # JStr(S_injected)
       /\ S_injected \notin DOMAIN Result.argument
       /\ S_injected \notin DOMAIN Result.option

RECURSIVE HasNaNOrInfinity(_)
HasNaNOrInfinity(v) ==
  \/ IsNaN(v)
  \/ IsInfinite(v)
  \/ \E i \in 1..Len(v.a) : HasNaNOrInfinity(v.a[i])

\* s is, spaces around it aside, a finite decimal literal from end to end
WholeNumericLiteral(s) ==
  LET core == Trim(s)
      body == Unsigned(core)
      digits == { i \in 1..Len(body) : body[i] \in Digits }
      dots == { i \in 1..Len(body) : body[i] = "." }
  IN /\ digits # {}
     /\ Cardinality(dots) <= 1
     /\ digits \cup dots = 1..Len(body)

\* C9: _cast gives a number for a comma-free string only when the whole
\* string is a finite numeric literal, and no result of _cast, nor any
\* element of an array it gives, is NaN or an infinity.
C9_NoNaNFromCast ==
  castOut \notin {NotCast, Recast, JTypeError} =>
    /\ ~HasNaNOrInfinity(castOut)
    /\ ( /\ castIn.t = "string"
         /\ "," \notin {castIn.s[i] : i \in 1..Len(castIn.s)}
         /\ castOut.t = "number" )
       => WholeNumericLiteral(castIn.s)

\* C10: _cast never fails, and applied to a value that is already a result
\* of _cast and is not a string (a number, a boolean, an array of cast
\* values) it returns that value unchanged.
C10_CastTotalAndIdempotent ==
  castOut \notin {NotCast, Recast} =>
    /\ castOut # JTypeError
    /\ castIn.t \in {"number", "boolean", "array"} => castOut = castIn

=============================================================================
